---- MODULE Spec2Model ----
(***************************************************************************)
(* Batch orchestrator and finisher of the quiz video generator:            *)
(* main.py (main, process_question, process_question_sequential),          *)
(* src/utils.py (load_questions, discover_output_files,                    *)
(* get_existing_question_ids, filter_questions_to_render), src/concat.py   *)
(* (render_intro_clip, create_concat_list, concatenate_videos) and the     *)
(* entry of src/rendering.py (build_question_video).                       *)
(*                                                                         *)
(* Spec is the program run after run.  Three smaller specifications study  *)
(* parts of it on their own: SpecClips the option clips of src/clips.py    *)
(* (make_option_clips, get_position) and their place on the timeline,      *)
(* SpecWrap the line wrapping (wrap_text_pixel), SpecPause the pause flag  *)
(* of main.py under SIGUSR1 signals delivered at any point.                *)
(*                                                                         *)
(* Strings are sequences of one-character strings, so that the file-name   *)
(* formatting, slicing and int() parsing of the code are computed.         *)
(***************************************************************************)
EXTENDS Integers, Sequences, FiniteSets, TLC

\* ------------------------------------------------------------------ bounds
MaxBank == 2
MaxRuns == 2
MaxJobs == 2
MaxBatch == 2
MaxOpts == 3
MaxLen == 6
MaxUnits == 2
MaxSignals == 3

\* ------------------------------------------------------ strings and paths
DigitChars == <<"0", "1", "2", "3", "4", "5", "6", "7", "8", "9">>

IsDigit(c) == \E i \in 1..Len(DigitChars) : DigitChars[i] = c

DigitVal(c) == (CHOOSE i \in 1..Len(DigitChars) : DigitChars[i] = c) - 1

RECURSIVE DecStr(_)
\* str(n) of a natural number: the JSON keys of the bank.
DecStr(n) ==
    IF n < 10 THEN <<DigitChars[n + 1]>>
    ELSE DecStr(n \div 10) \o <<DigitChars[(n % 10) + 1]>>

RECURSIVE DigitsValue(_)
DigitsValue(s) ==
    IF s = <<>> THEN 0
    ELSE 10 * DigitsValue(SubSeq(s, 1, Len(s) - 1)) + DigitVal(s[Len(s)])

\* int(s): a value, or ValueError when s is not a decimal numeral.
ParseInt(s) ==
    IF s # <<>> /\ \A i \in 1..Len(s) : IsDigit(s[i])
    THEN [ok |-> TRUE, val |-> DigitsValue(s)]
    ELSE [ok |-> FALSE, val |-> 0]

StartsWith(s, p) == Len(s) >= Len(p) /\ SubSeq(s, 1, Len(p)) = p

EndsWith(s, p) == Len(s) >= Len(p) /\ SubSeq(s, Len(s) - Len(p) + 1, Len(s)) = p

file_pattern == <<"q", "u", "i", "z", "_">>
Mp4 == <<".", "m", "p", "4">>
IntroName == <<"i", "n", "t", "r", "o">> \o Mp4
ListName == <<"t", "o", "_", "c", "o", "n", "c", "a", "t", ".", "t", "x", "t">>
\* args.final, the default of --final
FinalName == file_pattern \o <<"f", "i", "n", "a", "l">> \o Mp4
\* args.output
OutDir == <<"o", "u", "t", "p", "u", "t">>
Sep == "/"

\* f"quiz_{qid}.mp4"
QuizName(qid) == file_pattern \o qid \o Mp4

\* file[len(file_pattern):-4]
StemOf(file) == SubSeq(file, Len(file_pattern) + 1, Len(file) - 4)

\* os.path.join(dir, file)
Join(dir, file) == dir \o <<Sep>> \o file

\* os.path.basename(path)
Basename(path) ==
    LET seps == {i \in 1..Len(path) : path[i] = Sep}
        last == IF seps = {} THEN 0 ELSE CHOOSE i \in seps : \A j \in seps : j <= i
    IN SubSeq(path, last + 1, Len(path))

\* os.path.dirname(path)
Dirname(path) ==
    LET seps == {i \in 1..Len(path) : path[i] = Sep}
        last == IF seps = {} THEN 0 ELSE CHOOSE i \in seps : \A j \in seps : j <= i
    IN SubSeq(path, 1, last - 1)

\* ------------------------------------------------------------ the inputs
\* Question numbers of the modelled banks (10 sorts before 2 as a string).
QNums == {1, 2, 10}
QIds == {DecStr(n) : n \in QNums}

\* The value of a bank entry: question 1 has exactly one correct option,
\* question 2 none, question 10 two.
DataOf(qid) ==
    [question |-> "text",
     options |->
        IF qid = DecStr(1) THEN <<[text |-> "a", is_corr |-> FALSE], [text |-> "b", is_corr |-> TRUE]>>
        ELSE IF qid = DecStr(2) THEN <<[text |-> "a", is_corr |-> FALSE], [text |-> "b", is_corr |-> FALSE]>>
        ELSE <<[text |-> "a", is_corr |-> TRUE], [text |-> "b", is_corr |-> TRUE]>>]

CorrectCount(data) == Cardinality({i \in 1..Len(data.options) : data.options[i].is_corr})

\* Sequences of distinct elements of S of length at most n.
DistinctSeqs(S, n) ==
    UNION {{s \in [1..k -> S] : \A i, j \in 1..k : i # j => s[i] # s[j]} : k \in 0..n}

\* The question bank file: a list of single-key mappings {qid: data}, with
\* unique identifiers, or a file that is missing or not JSON.
Banks ==
    {[status |-> "ok", entries |-> [i \in 1..Len(ids) |-> [qid |-> ids[i], data |-> DataOf(ids[i])]]] :
        ids \in DistinctSeqs(QIds, MaxBank)}
    \cup {[status |-> st, entries |-> <<>>] : st \in {"missing", "invalid"}}

FileNames == {QuizName(q) : q \in QIds} \cup {IntroName, FinalName, ListName}

\* The state of a file of the output directory: absent, a complete file, or
\* the partial file an encoder leaves when it fails part-way.
Absent == "absent"
Complete == "file"
Partial == "partial"

\* The questions whose artifact may be the partial file of an encode that
\* was interrupted before the first modelled run.
PartialIds == {DecStr(1)}

\* os.path.exists(path)
Exists(dir, path) == Dirname(path) = OutDir /\ Basename(path) \in FileNames /\ dir[Basename(path)] # Absent

\* parse_args: the flags a run can be given.  jobs and batch_size are only
\* read in parallel mode, force_render only by the skip-existing filter.
ForceIds == {DecStr(1)}
ForceLists == {<<>>} \cup {<<q>> : q \in ForceIds}

ArgSpace ==
    {[skip_rendering |-> TRUE, skip_existing |-> FALSE, sequential |-> FALSE,
      force_render |-> <<>>, jobs |-> 1, batch_size |-> 1]}
    \cup
    {[skip_rendering |-> FALSE, skip_existing |-> se, sequential |-> TRUE,
      force_render |-> fr, jobs |-> 1, batch_size |-> 1] :
        se \in BOOLEAN, fr \in ForceLists}
    \cup
    {[skip_rendering |-> FALSE, skip_existing |-> se, sequential |-> FALSE,
      force_render |-> fr, jobs |-> j, batch_size |-> b] :
        se \in BOOLEAN, fr \in ForceLists, j \in 1..MaxJobs, b \in 1..MaxBatch}

DefaultArgs ==
    [skip_rendering |-> FALSE, skip_existing |-> FALSE, sequential |-> FALSE,
     force_render |-> <<>>, jobs |-> 1, batch_size |-> 1]

\* Python's None, as a result of process_question; `if path` is false for it.
None == <<>>

VARIABLES
    bank,          \* the question bank file
    fs,            \* the output directory: file name -> content
    manifest,      \* the lines of to_concat.txt
    run,           \* number of runs of main started so far
    args,          \* the parsed arguments of the current run
    pc,            \* position of main
    questions,     \* main: the questions selected for rendering
    batch_num,     \* main: loop index (question index in sequential mode)
    items,         \* the pool's work items of the current batch
    output_paths,  \* main: collected output paths
    scanned,       \* main: output_paths came from discover_output_files
    outcome,       \* how the current run ended
    concat_ret,    \* return value of concatenate_videos in this run
    mux_exit,      \* what the ffmpeg invocation of this run did
    fs0,           \* history: the output directory when the run started
    handed,        \* history: qids handed to process_question in this run
    builds,        \* history: build_question_video invocations of this run
    written,       \* history: the files written in this run
    intro_log,     \* history: renderings of the intro clip in this run
    intro_done,    \* history: completed renderings of the intro clip, all runs
    batch_cools,   \* history: the batches this run's cool-time sleep followed
    fn_call,       \* the arguments of the function call under study
    fn_result,     \* the value that call returned
    probes,        \* the last evaluations made on the returned clips
    should_pause,  \* main.py: the global pause flag
    orch,          \* the orchestrator's position in its rendering loop
    sig_count,     \* SIGUSR1 signals delivered so far
    owed           \* history: a pause request no cooldown has served yet

main_vars == <<bank, fs, manifest, run, args, pc, questions, batch_num, items,
               output_paths, scanned, outcome, concat_ret, mux_exit, fs0, handed, builds,
               written, intro_log, intro_done, batch_cools>>

fn_vars == <<fn_call, fn_result, probes>>

pause_vars == <<should_pause, orch, sig_count, owed>>

vars == <<main_vars, fn_vars, pause_vars>>

\* ------------------------------------------------------------- src/utils.py
\* load_questions: the parsed list, or [] when the file is missing or is
\* not valid JSON.
load_questions(b) == IF b.status = "ok" THEN b.entries ELSE <<>>

RECURSIVE Perms(_)
Perms(S) == IF S = {} THEN {<<>>} ELSE UNION {{<<x>> \o p : p \in Perms(S \ {x})} : x \in S}

Present(dir) == {f \in FileNames : dir[f] # Absent}

IsQuizFile(file) == StartsWith(file, file_pattern) /\ EndsWith(file, Mp4)

\* The names of an os.listdir result that pass the test of line 58, in the
\* order of the listing: os.listdir may return the names in any order.
Listings(dir) == Perms({file \in Present(dir) : IsQuizFile(file)})

\* discover_output_files.get_question_num
get_question_num(path) ==
    LET file == Basename(path)
        n == ParseInt(StemOf(file))
    IN IF n.ok THEN n.val ELSE 0

\* sorted(seq, key=get_question_num): a stable insertion sort.
SortInsert(sorted, x) ==
    LET later == {i \in 1..Len(sorted) : get_question_num(sorted[i]) > get_question_num(x)}
        at == IF later = {} THEN Len(sorted) + 1 ELSE CHOOSE i \in later : \A j \in later : i <= j
    IN SubSeq(sorted, 1, at - 1) \o <<x>> \o SubSeq(sorted, at, Len(sorted))

RECURSIVE SortedByNum(_)
SortedByNum(seq) ==
    IF seq = <<>> THEN <<>>
    ELSE SortInsert(SortedByNum(SubSeq(seq, 1, Len(seq) - 1)), seq[Len(seq)])

\* discover_output_files(dir_path), for one order of the directory listing.
discover_output_files(listing) ==
    LET found_files == [i \in 1..Len(listing) |-> Join(OutDir, listing[i])]
    IN SortedByNum(found_files)

\* get_existing_question_ids(dir_path)
get_existing_question_ids(dir) == {StemOf(file) : file \in {f \in Present(dir) : IsQuizFile(f)}}

SeqToSet(s) == {s[i] : i \in 1..Len(s)}

\* filter_questions_to_render with the existence test inverted.
filter_questions_to_render_inverted(qs, dir, force_render) ==
    LET existing_ids == get_existing_question_ids(dir)
        force_render_set == SeqToSet(force_render)
        Keep(question) == question.qid \in existing_ids \/ question.qid \in force_render_set
    IN SelectSeq(qs, Keep)

\* filter_questions_to_render(questions, output_dir, force_render)
filter_questions_to_render(qs, dir, force_render) ==
    LET existing_ids == get_existing_question_ids(dir)
        force_render_set == SeqToSet(force_render)
        Keep(question) == question.qid \notin existing_ids \/ question.qid \in force_render_set
    IN SelectSeq(qs, Keep)

\* ------------------------------------------------------- config/settings.py
\* Time is counted in ticks of 1/100 s: SLIDE_DELAY (0.15 s), SLIDE_DUR
\* (0.25 s) and the 0.1 s floor of a clip's duration are whole numbers of
\* ticks, and the slide-in (200 px over 25 ticks) is exact.
TicksPerSecond == 100

Seconds(n) == n * TicksPerSecond

DUR_GUESS == 10

DUR_REVEAL == 3

Q_WIDTH == 1600

Q_TOP_MARGIN == 150

OPT_COLS == <<150, 1000>>

OPT_ROW_GAP == 150

OPT_TOP_GAP == 200

SLIDE_DELAY == (15 * TicksPerSecond) \div 100

SLIDE_DUR == (25 * TicksPerSecond) \div 100

REGULAR_FONT == "NotoSansDevanagari-Regular.ttf"

BOLD_FONT == "NotoSansDevanagari-ExtraBold.ttf"

PALETTE == [opt |-> <<170, 170, 170>>, correct |-> <<76, 175, 80>>]

\* ------------------------------------------------------ src/txt_rendering.py
\* ImageFont.truetype(path, size)
Font(path, size) == [path |-> path, size |-> size]

\* The advance of a glyph, in tenths of the font size: a space, a narrow
\* letter, every other character.
GlyphAdvance(c) == IF c = " " THEN 2 ELSE IF c = "i" THEN 3 ELSE 7

RECURSIVE TextWidth(_, _)
\* draw.textbbox of one line: bbox[2] - bbox[0].
TextWidth(line, font) ==
    IF line = <<>> THEN 0
    ELSE (GlyphAdvance(Head(line)) * font.size) \div 10 + TextWidth(Tail(line), font)

NL == "\n"

\* The lines of a text.
RECURSIVE SplitLines(_, _, _)
SplitLines(text, cur, acc) ==
    IF text = <<>> THEN Append(acc, cur)
    ELSE IF Head(text) = NL THEN SplitLines(Tail(text), <<>>, Append(acc, cur))
    ELSE SplitLines(Tail(text), Append(cur, Head(text)), acc)

\* draw.textbbox of a text, bbox[3] - bbox[1]: nothing for the empty text,
\* else one line height (12 tenths of the font size) per line.
TextHeight(text, font) ==
    IF text = <<>> THEN 0 ELSE Len(SplitLines(text, <<>>, <<>>)) * ((12 * font.size) \div 10)

\* render_text_clip: the image is as high as the text plus the padding on
\* both sides; a start time is set only when it is positive, and a clip
\* starts at 0 otherwise.
render_text_clip(text, font_path, font_size, color_rgb, duration, pos, padding, start_time) ==
    [text |-> text, font |-> font_path, font_size |-> font_size, color |-> color_rgb,
     duration |-> duration, pos |-> pos,
     height |-> TextHeight(text, Font(font_path, font_size)) + padding * 2,
     start |-> IF start_time > 0 THEN start_time ELSE 0]

\* -------------------------------------------------------------- src/clips.py
MAX_OPT_CHARS_PER_LINE == 25

\* The larger of two numbers.
Max(a, b) == IF a >= b THEN a ELSE b

\* str.split(): the maximal runs of characters that are not white space.
RECURSIVE split(_, _, _)
split(text, cur, acc) ==
    IF text = <<>> THEN (IF cur = <<>> THEN acc ELSE Append(acc, cur))
    ELSE IF Head(text) = " "
    THEN split(Tail(text), <<>>, IF cur = <<>> THEN acc ELSE Append(acc, cur))
    ELSE split(Tail(text), Append(cur, Head(text)), acc)

\* str.strip(), in two halves.
RECURSIVE LStrip(_)
LStrip(text) == IF text # <<>> /\ Head(text) = " " THEN LStrip(Tail(text)) ELSE text

RECURSIVE RStrip(_)
RStrip(text) ==
    IF text # <<>> /\ text[Len(text)] = " " THEN RStrip(SubSeq(text, 1, Len(text) - 1)) ELSE text

Strip(text) == RStrip(LStrip(text))

\* "\n".join(lines)
RECURSIVE JoinLines(_)
JoinLines(lines) ==
    IF lines = <<>> THEN <<>>
    ELSE IF Len(lines) = 1 THEN lines[1]
    ELSE lines[1] \o <<NL>> \o JoinLines(Tail(lines))

\* The loop of wrap_text_pixel (lines 26-39) over the remaining words.
RECURSIVE wrap_loop(_, _, _, _, _)
wrap_loop(words, current, lines, font, max_width) ==
    IF words = <<>>
    THEN (IF current # <<>> THEN Append(lines, current) ELSE lines)
    ELSE LET word == Head(words)
             test_line == Strip(current \o <<" ">> \o word)
             line_width == TextWidth(test_line, font)
         IN IF line_width <= max_width
            THEN wrap_loop(Tail(words), test_line, lines, font, max_width)
            ELSE wrap_loop(Tail(words), word,
                           IF current # <<>> THEN Append(lines, current) ELSE lines,
                           font, max_width)

\* wrap_text_pixel comparing against a limit one space wider than asked.
wrap_text_pixel_wide(text, font, max_width) ==
    JoinLines(wrap_loop(split(text, <<>>, <<>>), <<>>, <<>>, font,
                        max_width + TextWidth(<<" ">>, font)))

\* wrap_text_pixel(text, font, max_width)
wrap_text_pixel(text, font, max_width) ==
    JoinLines(wrap_loop(split(text, <<>>, <<>>), <<>>, <<>>, font, max_width))

\* textwrap's chunks: the maximal runs of spaces and of other characters.
RECURSIVE chunks(_, _, _)
chunks(text, cur, acc) ==
    IF text = <<>> THEN (IF cur = <<>> THEN acc ELSE Append(acc, cur))
    ELSE IF cur = <<>> \/ (Head(text) = " ") = (cur[1] = " ")
    THEN chunks(Tail(text), Append(cur, Head(text)), acc)
    ELSE chunks(Tail(text), <<Head(text)>>, Append(acc, cur))

\* textwrap.TextWrapper._wrap_chunks with the default options: a chunk that
\* fits is added to the line, a chunk longer than the width is broken, white
\* space is dropped at the start of every line but the first and at the end
\* of every line, and a line left empty is not kept.
RECURSIVE fill_loop(_, _, _, _)
fill_loop(cs, cur, lines, width) ==
    LET kept == IF RStrip(cur) # <<>> THEN Append(lines, RStrip(cur)) ELSE lines
    IN IF cs = <<>> THEN kept
       ELSE LET c == Head(cs)
            IN IF cur = <<>> /\ c[1] = " " /\ lines # <<>>
               THEN fill_loop(Tail(cs), cur, lines, width)
               ELSE IF Len(cur) + Len(c) <= width
               THEN fill_loop(Tail(cs), cur \o c, lines, width)
               ELSE IF Len(c) > width
               THEN LET space_left == Max(width - Len(cur), 1)
                        piece == cur \o SubSeq(c, 1, space_left)
                    IN fill_loop(<<SubSeq(c, space_left + 1, Len(c))>> \o Tail(cs), <<>>,
                                 IF RStrip(piece) # <<>> THEN Append(lines, RStrip(piece)) ELSE lines,
                                 width)
               ELSE fill_loop(cs, <<>>, kept, width)

\* wrap_text(text, max_chars): textwrap.fill
wrap_text(text, max_chars) == JoinLines(fill_loop(chunks(text, <<>>, <<>>), <<>>, <<>>, max_chars))

\* get_question_height(question_text): the height of the clip rendered from
\* the wrapped question.
get_question_height(question_text) ==
    render_text_clip(wrap_text_pixel(question_text, Font(BOLD_FONT, 90), Q_WIDTH),
                     REGULAR_FONT, 70, <<204, 204, 204>>, TicksPerSecond \div 10, None, 20, 0).height

\* get_position with the progress taken backwards.
get_position_reversed(t, idx, x0, y0) ==
    LET elapsed == t - idx * SLIDE_DELAY
    IN IF elapsed <= 0 THEN <<x0 - 200, y0>>
       ELSE IF elapsed >= SLIDE_DUR THEN <<x0, y0>>
       ELSE <<x0 - (200 * elapsed) \div SLIDE_DUR, y0>>

\* get_position(t, idx, x0, y0), lines 124-131: idx, x0 and y0 are default
\* arguments, bound when the function is defined.
get_position(t, idx, x0, y0) ==
    LET elapsed == t - idx * SLIDE_DELAY
    IN IF elapsed <= 0 THEN <<x0 - 200, y0>>
       ELSE IF elapsed >= SLIDE_DUR THEN <<x0, y0>>
       ELSE <<x0 - (200 * (SLIDE_DUR - elapsed)) \div SLIDE_DUR, y0>>

\* f"{idx+1}. {text}"
OptionLabel(idx, text) == DecStr(idx + 1) \o <<".", " ">> \o text

\* The style that follows the flag of the option in both phases.
option_style_by_flag(is_corr, reveal) ==
    [color |-> IF is_corr THEN PALETTE.correct ELSE PALETTE.opt,
     fs |-> IF is_corr THEN 60 ELSE 50,
     font |-> IF is_corr THEN BOLD_FONT ELSE REGULAR_FONT]

\* color, fs and font of an option, lines 107-109 and 121.
option_style(is_corr, reveal) ==
    IF reveal
    THEN [color |-> IF is_corr THEN PALETTE.correct ELSE PALETTE.opt,
          fs |-> IF is_corr THEN 60 ELSE 50,
          font |-> IF is_corr THEN BOLD_FONT ELSE REGULAR_FONT]
    ELSE [color |-> PALETTE.opt, fs |-> 50, font |-> REGULAR_FONT]

\* make_option_clips(question_text, options, dur, reveal): options is the
\* ordered mapping, a sequence of (text, is_corr) items.
make_option_clips(question_text, options, dur, reveal) ==
    LET qh == get_question_height(question_text)
        start_y == Q_TOP_MARGIN + qh + OPT_TOP_GAP
    IN [i \in 1..Len(options) |->
          LET idx == i - 1
              row == idx \div 2
              col == idx % 2
              y == start_y + row * OPT_ROW_GAP
              is_corr == options[i].is_corr
              wrapped_opt == wrap_text(OptionLabel(idx, options[i].text), MAX_OPT_CHARS_PER_LINE)
              style == option_style(is_corr, reveal)
          IN IF reveal
             THEN render_text_clip(wrapped_opt, style.font, style.fs, style.color, dur,
                                   [fn |-> "fixed", x0 |-> OPT_COLS[col + 1], y0 |-> y],
                                   10, 0)
             ELSE render_text_clip(wrapped_opt, style.font, style.fs, style.color,
                                   Max(TicksPerSecond \div 10, dur - idx * SLIDE_DELAY),
                                   [fn |-> "get_position", idx |-> idx,
                                    x0 |-> OPT_COLS[col + 1], y0 |-> y],
                                   10, idx * SLIDE_DELAY)]

\* clip.pos(t): a fixed position, or the clip's position function applied
\* to its bound arguments.
PosAt(clip, t) ==
    IF clip.pos.fn = "get_position"
    THEN get_position(t, clip.pos.idx, clip.pos.x0, clip.pos.y0)
    ELSE <<clip.pos.x0, clip.pos.y0>>

\* --------------------------------------------------------- src/rendering.py
\* The signature of make_option_clips (src/clips.py) and the call of it in
\* build_question_video: make_option_clips(options, DUR_GUESS, reveal=False).
MakeOptionClipsParams == <<"question_text", "options", "dur", "reveal">>
MakeOptionClipsDefaults == {"reveal"}
OptionClipsCall == [npos |-> 2, keywords |-> {"reveal"}]

\* Python's argument binding: the parameters that get no value.
MissingArgs(params, defaults, call) ==
    {params[i] : i \in (call.npos + 1)..Len(params)} \ (call.keywords \cup defaults)

\* What the environment does to one build: the audio files may fail to
\* load, the encoder may fail.
BuildEnvs == {"ok", "audio_error", "encode_error"}

\* The three clips handed to concatenate_videoclips (line 59): the one
\* second lead-in (line 56), the guess phase with the progress bar among its
\* layers (lines 35-43) and the reveal phase without it (lines 46-53).
PhaseClips ==
    <<[name |-> "pause", duration |-> Seconds(1), bar |-> FALSE],
      [name |-> "guess", duration |-> Seconds(DUR_GUESS), bar |-> TRUE],
      [name |-> "reveal", duration |-> Seconds(DUR_REVEAL), bar |-> FALSE]>>

RECURSIVE TotalDuration(_)
TotalDuration(cs) == IF cs = <<>> THEN 0 ELSE Head(cs).duration + TotalDuration(Tail(cs))

\* concatenate_videoclips(clips, method="compose"): every clip starts where
\* the one before it ends.
concatenate_videoclips(cs) ==
    [i \in 1..Len(cs) |->
        [name |-> cs[i].name, start |-> TotalDuration(SubSeq(cs, 1, i - 1)),
         duration |-> cs[i].duration, bar |-> cs[i].bar]]

\* build_question_video(question_id, data, audio_resources, output_dir):
\* the stage it reaches, whether the composition of the guess phase was
\* begun (line 35), whether it raises, the file content it leaves, the
\* path it returns, and the timeline and duration of the final clip if it
\* was composed.
build_question_video(question_id, data, env) ==
    LET out_path == Join(OutDir, QuizName(question_id))
    IN IF env = "audio_error"
       THEN [qid |-> question_id, raised |-> TRUE, stage |-> "audio", composing |-> FALSE,
             wrote |-> Absent, path |-> None, correct |-> CorrectCount(data),
             timeline |-> <<>>, duration |-> 0]
       ELSE IF MissingArgs(MakeOptionClipsParams, MakeOptionClipsDefaults, OptionClipsCall) # {}
       THEN [qid |-> question_id, raised |-> TRUE, stage |-> "option_clips", composing |-> TRUE,
             wrote |-> Absent, path |-> None, correct |-> CorrectCount(data),
             timeline |-> <<>>, duration |-> 0]
       ELSE IF env = "encode_error"
       THEN [qid |-> question_id, raised |-> TRUE, stage |-> "encode", composing |-> TRUE,
             wrote |-> Partial, path |-> None, correct |-> CorrectCount(data),
             timeline |-> concatenate_videoclips(PhaseClips),
             duration |-> Seconds(DUR_GUESS + DUR_REVEAL + 1)]
       ELSE [qid |-> question_id, raised |-> FALSE, stage |-> "done", composing |-> TRUE,
             wrote |-> Complete, path |-> out_path, correct |-> CorrectCount(data),
             timeline |-> concatenate_videoclips(PhaseClips),
             duration |-> Seconds(DUR_GUESS + DUR_REVEAL + 1)]

\* The directory after a build.
AfterBuild(dir, b) ==
    IF b.wrote = Absent THEN dir ELSE [dir EXCEPT ![QuizName(b.qid)] = b.wrote]

\* The file a build wrote, if any.
BuildTouched(b) == IF b.wrote = Absent THEN {} ELSE {QuizName(b.qid)}

\* ------------------------------------------------------------ src/concat.py
IntroPath == Join(OutDir, IntroName)

\* What the environment does to the rendering of the intro clip: it works,
\* it fails before the file is opened, or the encoder fails part-way.
IntroEnvs == {"ok", "error", "encode_error"}

\* render_intro_clip without the check for an existing intro clip.
render_intro_clip_always(dir, env) ==
    IF env = "ok"
    THEN [path |-> IntroPath, rendered |-> TRUE, raised |-> FALSE,
          dir |-> [dir EXCEPT ![IntroName] = Complete], touched |-> {IntroName}]
    ELSE IF env = "encode_error"
    THEN [path |-> None, rendered |-> TRUE, raised |-> TRUE,
          dir |-> [dir EXCEPT ![IntroName] = Partial], touched |-> {IntroName}]
    ELSE [path |-> None, rendered |-> TRUE, raised |-> TRUE, dir |-> dir, touched |-> {}]

\* render_intro_clip(output_dir)
render_intro_clip(dir, env) ==
    IF Exists(dir, IntroPath)
    THEN [path |-> IntroPath, rendered |-> FALSE, raised |-> FALSE, dir |-> dir, touched |-> {}]
    ELSE IF env = "ok"
    THEN [path |-> IntroPath, rendered |-> TRUE, raised |-> FALSE,
          dir |-> [dir EXCEPT ![IntroName] = Complete], touched |-> {IntroName}]
    ELSE IF env = "encode_error"
    THEN [path |-> None, rendered |-> TRUE, raised |-> TRUE,
          dir |-> [dir EXCEPT ![IntroName] = Partial], touched |-> {IntroName}]
    ELSE [path |-> None, rendered |-> TRUE, raised |-> TRUE, dir |-> dir, touched |-> {}]

\* f"file '{p}'" : one line of the manifest
LinePrefix == <<"f", "i", "l", "e", " ", "'">>
ManifestLine(p) == LinePrefix \o p \o <<"'">>

\* create_concat_list(output_paths, output_dir)
create_concat_list(paths, dir, env) ==
    LET intro == render_intro_clip(dir, env)
        full_list == <<intro.path>> \o paths
    IN IF intro.raised
       THEN [raised |-> TRUE, intro |-> intro, dir |-> intro.dir, touched |-> intro.touched,
             lines |-> <<>>]
       ELSE [raised |-> FALSE, intro |-> intro,
             dir |-> [intro.dir EXCEPT ![ListName] = Complete],
             touched |-> intro.touched \cup {ListName},
             lines |-> [i \in 1..Len(full_list) |-> ManifestLine(full_list[i])]]

\* What the ffmpeg invocation can do: exit 0, exit non-zero, or fail to
\* start (no executable).
MuxOutcomes == {"zero", "nonzero", "nolaunch"}

\* subprocess.run(cmd, check=True)
subprocess_run(mux) ==
    IF mux = "zero" THEN "returned"
    ELSE IF mux = "nolaunch" THEN "FileNotFoundError"
    ELSE "CalledProcessError"

\* concatenate_videos(list_path, output_path)
concatenate_videos(mux) ==
    LET e == subprocess_run(mux)
    IN IF e = "returned" THEN [ret |-> "True", exc |-> FALSE]
       ELSE IF e = "CalledProcessError" THEN [ret |-> "False", exc |-> FALSE]
       ELSE [ret |-> "raised", exc |-> TRUE]

\* ------------------------------------------------------------------ main.py
QuizPath(qid) == Join(OutDir, QuizName(qid))

\* The existence check made on the bare file name, outside the output
\* directory.
already_rendered_bare_name(dir, qid) == Exists(dir, QuizName(qid))

\* process_question / process_question_sequential, first part: the check
\* whether the question's video already exists.
already_rendered(dir, qid) == Exists(dir, QuizPath(qid))

\* process_question without its except clause: an error of the build leaves
\* the function.
process_question_no_except(qid, data, env) ==
    LET b == build_question_video(qid, data, env)
    IN [ret |-> IF b.raised THEN None ELSE b.path, exc |-> b.raised, build |-> b]

\* process_question, the try block: the build with its except clause.
\* ret = the returned value, exc = an exception leaves the function.
process_question(qid, data, env) ==
    LET b == build_question_video(qid, data, env)
    IN [ret |-> IF b.raised THEN None ELSE b.path, exc |-> FALSE, build |-> b]

\* process_question_sequential, the try block.
process_question_sequential(qid, data, env) ==
    LET b == build_question_video(qid, data, env)
    IN [ret |-> IF b.raised THEN None ELSE b.path, exc |-> FALSE, build |-> b]

\* main without the early return on an empty bank.
no_questions_found_ignored(all_questions) == FALSE

\* main, line 189: `if not all_questions`
no_questions_found(all_questions) == all_questions = <<>>

\* math.ceil(a / b)
Ceil(a, b) == (a + b - 1) \div b

Min(a, b) == IF a <= b THEN a ELSE b

\* [path for path in results if path]
Truthy(path) == path # None

\* No function call is under study.
FnIdle ==
    /\ fn_call = None
    /\ fn_result = None
    /\ probes = <<>>

\* The pause protocol is not under study: no signal is ever delivered.
PauseIdle ==
    /\ should_pause = FALSE
    /\ orch = None
    /\ sig_count = 0
    /\ owed = FALSE

TypeOK ==
    /\ bank \in Banks
    /\ fs \in [FileNames -> {Absent, Complete, Partial}]
    /\ written \subseteq FileNames
    /\ intro_done \in 0..MaxRuns
    /\ run \in 0..MaxRuns
    /\ args \in ArgSpace \cup {DefaultArgs}
    /\ pc \in {"off", "idle", "main", "seq", "batch", "pool", "discover", "concat_list", "concatenate"}
    /\ outcome \in {"none", "no_questions", "no_videos", "all_done", "concat_failed", "crashed"}
    /\ concat_ret \in {"none", "True", "False", "raised"}
    /\ mux_exit \in {"none"} \cup MuxOutcomes
    /\ Len(batch_cools) <= batch_num
    /\ Len(probes) <= 2
    /\ should_pause \in BOOLEAN
    /\ owed \in BOOLEAN
    /\ sig_count \in 0..MaxSignals

Init ==
    /\ bank \in Banks
    /\ \E present \in SUBSET QIds, cut \in SUBSET PartialIds :
          fs = [f \in FileNames |->
                   IF \E q \in cut : f = QuizName(q) THEN Partial
                   ELSE IF \E q \in present \ cut : f = QuizName(q) THEN Complete
                   ELSE Absent]
    /\ manifest = <<>>
    /\ run = 0
    /\ args = DefaultArgs
    /\ pc = "off"
    /\ questions = <<>>
    /\ batch_num = 0
    /\ items = <<>>
    /\ output_paths = <<>>
    /\ scanned = FALSE
    /\ outcome = "none"
    /\ concat_ret = "none"
    /\ mux_exit = "none"
    /\ fs0 = fs
    /\ handed = <<>>
    /\ builds = <<>>
    /\ written = {}
    /\ intro_log = <<>>
    /\ intro_done = 0
    /\ batch_cools = <<>>
    /\ FnIdle
    /\ PauseIdle

\* The program is started: parse_args, and main up to output_paths = [].
StartRun ==
    /\ pc = "off"
    /\ run < MaxRuns
    /\ run' = run + 1
    /\ args' \in ArgSpace
    /\ pc' = "main"
    /\ UNCHANGED <<bank, fs, manifest, questions, batch_num, items, output_paths, scanned,
                   outcome, concat_ret, mux_exit, fs0, handed, builds, written, intro_log,
                   intro_done>>
    /\ UNCHANGED <<batch_cools, fn_vars, pause_vars>>

\* main has returned (or an exception ended it): the process exits, and all
\* that remains is the output directory.
ProcessExit ==
    /\ pc = "idle"
    /\ pc' = "off"
    /\ args' = DefaultArgs
    /\ questions' = <<>>
    /\ batch_num' = 0
    /\ items' = <<>>
    /\ output_paths' = <<>>
    /\ scanned' = FALSE
    /\ outcome' = "none"
    /\ concat_ret' = "none"
    /\ mux_exit' = "none"
    /\ fs0' = fs
    /\ handed' = <<>>
    /\ builds' = <<>>
    /\ written' = {}
    /\ intro_log' = <<>>
    /\ batch_cools' = <<>>
    /\ UNCHANGED <<bank, fs, manifest, run, intro_done>>
    /\ UNCHANGED <<fn_vars, pause_vars>>

\* main, lines 186-199: load the bank, filter it, choose the mode.
LoadQuestions ==
    /\ pc = "main"
    /\ IF args.skip_rendering
       THEN /\ pc' = "discover"
            /\ UNCHANGED <<questions, outcome>>
       ELSE LET all_questions == load_questions(bank)
                qs == IF args.skip_existing
                      THEN filter_questions_to_render(all_questions, fs, args.force_render)
                      ELSE all_questions
            IN IF no_questions_found(all_questions)
               THEN /\ pc' = "idle"
                    /\ outcome' = "no_questions"
                    /\ UNCHANGED questions
               ELSE /\ questions' = qs
                    /\ pc' = IF qs = <<>> THEN "discover"
                             ELSE IF args.sequential THEN "seq" ELSE "batch"
                    /\ UNCHANGED outcome
    /\ UNCHANGED <<bank, fs, manifest, run, args, batch_num, items, output_paths,
                   scanned, concat_ret, mux_exit, fs0, handed, builds, written, intro_log, intro_done>>
    /\ UNCHANGED <<batch_cools, fn_vars, pause_vars>>

\* main, lines 226-234: one iteration of the sequential loop, a whole call
\* of process_question_sequential.
SeqProcess ==
    /\ pc = "seq"
    /\ LET q == questions[batch_num + 1]
           last == batch_num + 1 = Len(questions)
       IN /\ handed' = Append(handed, q.qid)
          /\ batch_num' = batch_num + 1
          /\ IF already_rendered(fs, q.qid)
             THEN /\ output_paths' = Append(output_paths, QuizPath(q.qid))
                  /\ pc' = IF last THEN "discover" ELSE "seq"
                  /\ UNCHANGED <<fs, builds, outcome, written>>
             ELSE \E env \in BuildEnvs :
                    LET res == process_question_sequential(q.qid, q.data, env)
                    IN /\ builds' = Append(builds, res.build)
                       /\ fs' = AfterBuild(fs, res.build)
                       /\ written' = written \cup BuildTouched(res.build)
                       /\ IF res.exc
                          THEN /\ pc' = "idle"
                               /\ outcome' = "crashed"
                               /\ UNCHANGED output_paths
                          ELSE /\ output_paths' = IF Truthy(res.ret)
                                                  THEN Append(output_paths, res.ret)
                                                  ELSE output_paths
                               /\ pc' = IF last THEN "discover" ELSE "seq"
                               /\ UNCHANGED outcome
    /\ UNCHANGED <<bank, manifest, run, args, questions, items, scanned, concat_ret,
                   mux_exit, fs0, intro_log, intro_done>>
    /\ UNCHANGED <<batch_cools, fn_vars, pause_vars>>

\* A slice that begins one item early in every batch after the first.
batch_slice_overlapping(question_items, n, batch_size) ==
    LET start_idx == IF n = 0 THEN 0 ELSE n * batch_size - 1
        end_idx == Min(start_idx + batch_size, Len(question_items))
    IN SubSeq(question_items, start_idx + 1, end_idx)

\* main, lines 246-248: question_items[start_idx:end_idx] of batch n.
batch_slice(question_items, n, batch_size) ==
    LET start_idx == n * batch_size
        end_idx == Min(start_idx + batch_size, Len(question_items))
    IN SubSeq(question_items, start_idx + 1, end_idx)

\* main, lines 245-253: slice the next batch and hand it to a new pool.
BatchStart ==
    /\ pc = "batch"
    /\ LET batch == batch_slice(questions, batch_num, args.batch_size)
       IN items' = [i \in 1..Len(batch) |->
                      [qid |-> batch[i].qid, data |-> batch[i].data, st |-> "queued",
                       ret |-> None, exc |-> FALSE]]
    /\ pc' = "pool"
    /\ UNCHANGED <<bank, fs, manifest, run, args, questions, batch_num, output_paths,
                   scanned, outcome, concat_ret, mux_exit, fs0, handed, builds, written, intro_log, intro_done>>
    /\ UNCHANGED <<batch_cools, fn_vars, pause_vars>>

Running == {i \in 1..Len(items) : items[i].st = "building"}

\* A free worker of the pool takes the next item of the work queue and
\* runs process_question up to the existence check (lines 93-99).
WorkerPickup ==
    /\ pc = "pool"
    /\ Cardinality(Running) < args.jobs
    /\ \E i \in 1..Len(items) :
          /\ items[i].st = "queued"
          /\ \A j \in 1..(i - 1) : items[j].st # "queued"
          /\ handed' = Append(handed, items[i].qid)
          /\ items' = IF already_rendered(fs, items[i].qid)
                      THEN [items EXCEPT ![i].st = "done", ![i].ret = QuizPath(items[i].qid)]
                      ELSE [items EXCEPT ![i].st = "building"]
    /\ UNCHANGED <<bank, fs, manifest, run, args, pc, questions, batch_num, output_paths,
                   scanned, outcome, concat_ret, mux_exit, fs0, builds, written, intro_log, intro_done>>
    /\ UNCHANGED <<batch_cools, fn_vars, pause_vars>>

\* A worker runs the try block of process_question (lines 101-113).
WorkerBuild ==
    /\ pc = "pool"
    /\ \E i \in Running, env \in BuildEnvs :
          LET res == process_question(items[i].qid, items[i].data, env)
          IN /\ builds' = Append(builds, res.build)
             /\ fs' = AfterBuild(fs, res.build)
             /\ written' = written \cup BuildTouched(res.build)
             /\ items' = [items EXCEPT ![i].st = "done", ![i].ret = res.ret, ![i].exc = res.exc]
    /\ UNCHANGED <<bank, manifest, run, args, pc, questions, batch_num, output_paths,
                   scanned, outcome, concat_ret, mux_exit, fs0, handed, intro_log, intro_done>>
    /\ UNCHANGED <<batch_cools, fn_vars, pause_vars>>

\* main, lines 254-274: pool.map returns, the paths are collected, the
\* loop cools down and goes to the next batch.
BatchEnd ==
    /\ pc = "pool"
    /\ \A i \in 1..Len(items) : items[i].st = "done"
    /\ LET batch_results == [i \in 1..Len(items) |-> items[i].ret]
           batch_paths == SelectSeq(batch_results, Truthy)
           total_batches == Ceil(Len(questions), args.batch_size)
       IN IF \E i \in 1..Len(items) : items[i].exc
          THEN /\ pc' = "idle"
               /\ outcome' = "crashed"
               /\ UNCHANGED <<output_paths, batch_num, batch_cools>>
          ELSE /\ output_paths' = output_paths \o batch_paths
               /\ batch_cools' = IF batch_num < total_batches - 1
                                 THEN Append(batch_cools, batch_num)
                                 ELSE batch_cools
               /\ batch_num' = batch_num + 1
               /\ pc' = IF batch_num + 1 < total_batches THEN "batch" ELSE "discover"
               /\ UNCHANGED outcome
    /\ items' = <<>>
    /\ UNCHANGED <<bank, fs, manifest, run, args, questions, scanned, concat_ret, mux_exit,
                   fs0, handed, builds, written, intro_log, intro_done>>
    /\ UNCHANGED <<fn_vars, pause_vars>>

\* main, lines 276-282: with no collected path, scan the output directory.
Discover ==
    /\ pc = "discover"
    /\ IF output_paths = <<>>
       THEN \E listing \in Listings(fs) :
              LET found == discover_output_files(listing)
              IN /\ output_paths' = found
                 /\ scanned' = TRUE
                 /\ IF found = <<>>
                    THEN pc' = "idle" /\ outcome' = "no_videos"
                    ELSE pc' = "concat_list" /\ UNCHANGED outcome
       ELSE /\ pc' = "concat_list"
            /\ UNCHANGED <<output_paths, scanned, outcome>>
    /\ UNCHANGED <<bank, fs, manifest, run, args, questions, batch_num, items,
                   concat_ret, mux_exit, fs0, handed, builds, written, intro_log, intro_done>>
    /\ UNCHANGED <<batch_cools, fn_vars, pause_vars>>

\* main, lines 284-289: create_concat_list, with render_intro_clip.
CreateConcatList ==
    /\ pc = "concat_list"
    /\ \E env \in IntroEnvs :
          LET res == create_concat_list(output_paths, fs, env)
          IN /\ fs' = res.dir
             /\ written' = written \cup res.touched
             /\ intro_log' = IF res.intro.rendered
                             THEN Append(intro_log, ~res.intro.raised)
                             ELSE intro_log
             /\ intro_done' = IF res.intro.rendered /\ ~res.intro.raised
                              THEN intro_done + 1
                              ELSE intro_done
             /\ IF res.raised
                THEN /\ pc' = "idle"
                     /\ outcome' = "crashed"
                     /\ UNCHANGED manifest
                ELSE /\ pc' = "concatenate"
                     /\ manifest' = res.lines
                     /\ UNCHANGED outcome
    /\ UNCHANGED <<bank, run, args, questions, batch_num, items, output_paths, scanned,
                   concat_ret, mux_exit, fs0, handed, builds>>
    /\ UNCHANGED <<batch_cools, fn_vars, pause_vars>>

\* main, lines 291-296: concatenate_videos and the final message.
Concatenate ==
    /\ pc = "concatenate"
    /\ \E mux \in MuxOutcomes :
          LET res == concatenate_videos(mux)
          IN /\ mux_exit' = mux
             /\ concat_ret' = res.ret
             /\ fs' = IF mux = "zero" THEN [fs EXCEPT ![FinalName] = Complete] ELSE fs
             /\ written' = IF mux = "zero" THEN written \cup {FinalName} ELSE written
             /\ outcome' = IF res.exc THEN "crashed"
                           ELSE IF res.ret = "True" THEN "all_done" ELSE "concat_failed"
    /\ pc' = "idle"
    /\ UNCHANGED <<bank, manifest, run, args, questions, batch_num, items, output_paths,
                   scanned, fs0, handed, builds, intro_log, intro_done>>
    /\ UNCHANGED <<batch_cools, fn_vars, pause_vars>>

Next ==
    \/ StartRun
    \/ ProcessExit
    \/ LoadQuestions
    \/ SeqProcess
    \/ BatchStart
    \/ WorkerPickup
    \/ WorkerBuild
    \/ BatchEnd
    \/ Discover
    \/ CreateConcatList
    \/ Concatenate

Spec == Init /\ [][Next]_vars

\* ------------------------------------------- make_option_clips on its own
\* The program is not running.
MainIdle ==
    /\ bank = [status |-> "missing", entries |-> <<>>]
    /\ fs = [f \in FileNames |-> Absent]
    /\ manifest = <<>>
    /\ run = 0
    /\ args = DefaultArgs
    /\ pc = "off"
    /\ questions = <<>>
    /\ batch_num = 0
    /\ items = <<>>
    /\ output_paths = <<>>
    /\ scanned = FALSE
    /\ outcome = "none"
    /\ concat_ret = "none"
    /\ mux_exit = "none"
    /\ fs0 = fs
    /\ handed = <<>>
    /\ builds = <<>>
    /\ written = {}
    /\ intro_log = <<>>
    /\ intro_done = 0
    /\ batch_cools = <<>>

\* n copies of a character.
Rep(c, n) == [i \in 1..n |-> c]

\* The text of the i-th option: short ones, and every third one long enough
\* for its label to be wrapped.
OptText(i) ==
    IF i % 3 = 0 THEN Rep("m", 12) \o <<" ">> \o Rep("i", 9 + i) ELSE Rep("m", i)

\* The option mappings: up to MaxOpts options with distinct texts, any flags.
OptionMaps ==
    UNION {{[i \in 1..n |-> [text |-> OptText(i), is_corr |-> f[i]]] : f \in [1..n -> BOOLEAN]} :
              n \in 1..MaxOpts}

\* f"{question_id}. {data['question']}"
QuestionText == DecStr(1) \o <<".", " ">> \o <<"t", "e", "x", "t">>

\* The two calls of build_question_video (lines 37 and 48), with the
\* question text in its place: the guess phase and the reveal phase.
ClipCalls ==
    {[fn |-> "make_option_clips", question_text |-> QuestionText, options |-> o,
      dur |-> Seconds(IF r THEN DUR_REVEAL ELSE DUR_GUESS), reveal |-> r] :
        o \in OptionMaps, r \in BOOLEAN}

\* The instants around an option's slide-in, relative to its delay.
SlideOffsets == {-1, 0, 1, SLIDE_DUR \div 2, SLIDE_DUR - 1, SLIDE_DUR, SLIDE_DUR + 1}

\* The instants of the phase's timeline at which frames are composed.
FrameTimes ==
    {idx * SLIDE_DELAY + d : idx \in 0..(MaxOpts - 1), d \in {0, 1, SLIDE_DUR}}
    \cup {idx * SLIDE_DELAY - 1 : idx \in 1..(MaxOpts - 1)}
    \cup {Seconds(d) - e : d \in {DUR_GUESS, DUR_REVEAL}, e \in {0, 1}}

\* CompositeVideoClip at time t of the phase: a clip is shown from its start
\* to its end (start + duration) and placed by its position at t - start.
composite_frame(layers, t) ==
    [k \in 1..Len(layers) |->
        [shown |-> layers[k].start <= t /\ t < layers[k].start + layers[k].duration,
         pos |-> PosAt(layers[k], t - layers[k].start)]]

InitClips ==
    /\ MainIdle
    /\ PauseIdle
    /\ fn_call \in ClipCalls
    /\ fn_result = None
    /\ probes = <<>>

\* The call is made.
MakeOptionClips ==
    /\ fn_call # None
    /\ fn_call.fn = "make_option_clips"
    /\ fn_result = None
    /\ fn_result' = make_option_clips(fn_call.question_text, fn_call.options, fn_call.dur,
                                      fn_call.reveal)
    /\ UNCHANGED <<fn_call, probes, main_vars, pause_vars>>

\* The position of one returned clip is asked for at some time.  Two
\* evaluations are followed, in either order of their times.
EvalPosition ==
    /\ fn_call # None
    /\ fn_call.fn = "make_option_clips"
    /\ fn_result # None
    /\ Len(probes) < 2
    /\ \E k \in 1..Len(fn_result), d \in SlideOffsets :
          LET t == (k - 1) * SLIDE_DELAY + d
          IN probes' = Append(probes, [kind |-> "eval", k |-> k, t |-> t,
                                       pos |-> PosAt(fn_result[k], t)])
    /\ UNCHANGED <<fn_call, fn_result, main_vars, pause_vars>>

\* The compositor makes the frame of some instant from the returned clips.
CompositeFrame ==
    /\ fn_call # None
    /\ fn_call.fn = "make_option_clips"
    /\ fn_result # None
    /\ Len(probes) < 2
    /\ \E t \in FrameTimes :
          /\ t <= fn_call.dur
          /\ probes' = Append(probes, [kind |-> "frame", t |-> t,
                                       layers |-> composite_frame(fn_result, t)])
    /\ UNCHANGED <<fn_call, fn_result, main_vars, pause_vars>>

NextClips ==
    \/ MakeOptionClips
    \/ EvalPosition
    \/ CompositeFrame

SpecClips == InitClips /\ [][NextClips]_vars

\* --------------------------------------------- wrap_text_pixel on its own
\* The input strings: words of narrow and wide letters, and spaces.
RECURSIVE Strings(_)
Strings(n) ==
    IF n = 0 THEN {<<>>}
    ELSE Strings(n - 1) \cup {Append(t, c) : t \in Strings(n - 1), c \in {"i", "m", " "}}

\* The maximum widths: narrower than one wide letter, between two narrow
\* words and a mixed word, and wide enough for several words.
Widths == {60, 80, 200}

WrapCalls ==
    [fn : {"wrap_text_pixel"}, text : Strings(MaxLen), font : {Font(BOLD_FONT, 90)},
     max_width : Widths]

InitWrap ==
    /\ MainIdle
    /\ PauseIdle
    /\ fn_call \in WrapCalls
    /\ fn_result = None
    /\ probes = <<>>

\* The call is made.
WrapTextPixel ==
    /\ fn_call # None
    /\ fn_call.fn = "wrap_text_pixel"
    /\ fn_result = None
    /\ fn_result' = [value |-> wrap_text_pixel(fn_call.text, fn_call.font, fn_call.max_width)]
    /\ UNCHANGED <<fn_call, probes, main_vars, pause_vars>>

NextWrap == WrapTextPixel

SpecWrap == InitWrap /\ [][NextWrap]_vars

\* ------------------------------------------------- the pause flag of main.py
\* The rendering loop of main as the pause flag sees it.  A unit is a
\* question that is rendered (sequential mode) or a batch (parallel mode);
\* orch.at is where the orchestrator stands:
\*   "check"   before the test of should_pause (lines 131, 262)
\*   "sleep"   inside time.sleep(pause_duration) (lines 133, 264)
\*   "reset"   after the sleep, before should_pause = False (lines 134, 265)
\*   "render"  inside build_question_video or pool.map
\*   "cool"    inside the cool-time sleep (lines 143-157, 268-270)
\*   "done"    after the loop
pause_duration == 30

Orchestrators ==
    {[mode |-> "sequential", units |-> n, unit |-> 0, at |-> "check"] : n \in 1..MaxUnits}
    \cup {[mode |-> "parallel", units |-> n, unit |-> 0, at |-> "render"] : n \in 1..MaxUnits}

InitPause ==
    /\ MainIdle
    /\ FnIdle
    /\ should_pause = FALSE
    /\ orch \in Orchestrators
    /\ sig_count = 0
    /\ owed = FALSE

\* The orchestrator moves on to the next unit, or leaves the loop.
NextUnit(o) ==
    IF o.unit + 1 < o.units
    THEN [o EXCEPT !.unit = o.unit + 1, !.at = IF o.mode = "sequential" THEN "check" ELSE "render"]
    ELSE [o EXCEPT !.at = "done"]

\* Where the orchestrator goes after the pause test: to the build in
\* sequential mode; in parallel mode to the cool-time sleep if another batch
\* follows (batch_num < total_batches - 1), else out of the loop.
AfterPauseCheck(o) ==
    IF o.mode = "sequential" THEN [o EXCEPT !.at = "render"]
    ELSE IF o.unit < o.units - 1 THEN [o EXCEPT !.at = "cool"]
    ELSE NextUnit(o)

\* pause_handler: SIGUSR1 is delivered to the running program.  It toggles
\* the flag: a pause is asked for when the flag becomes true, and the pause
\* is called off when it becomes false.
PauseHandler ==
    /\ orch # None
    /\ orch.at # "done"
    /\ sig_count < MaxSignals
    /\ sig_count' = sig_count + 1
    /\ should_pause' = ~should_pause
    /\ owed' = ~should_pause
    /\ UNCHANGED <<orch, main_vars, fn_vars>>

\* if should_pause: the cooldown begins, or the test fails.
PauseCheck ==
    /\ orch # None
    /\ orch.at = "check"
    /\ IF should_pause
       THEN /\ orch' = [orch EXCEPT !.at = "sleep"]
            /\ owed' = FALSE
       ELSE /\ orch' = AfterPauseCheck(orch)
            /\ UNCHANGED owed
    /\ UNCHANGED <<should_pause, sig_count, main_vars, fn_vars>>

\* time.sleep(pause_duration) returns; a handler that ran meanwhile does
\* not shorten the sleep.
PauseSleep ==
    /\ orch # None
    /\ orch.at = "sleep"
    /\ orch' = [orch EXCEPT !.at = "reset"]
    /\ UNCHANGED <<should_pause, sig_count, owed, main_vars, fn_vars>>

\* should_pause = False
PauseReset ==
    /\ orch # None
    /\ orch.at = "reset"
    /\ should_pause' = FALSE
    /\ orch' = AfterPauseCheck(orch)
    /\ UNCHANGED <<sig_count, owed, main_vars, fn_vars>>

\* The unit has been rendered: build_question_video returns or raises, or
\* pool.map returns.  In sequential mode the cool-time sleep follows only a
\* build that did not raise.
RenderUnit ==
    /\ orch # None
    /\ orch.at = "render"
    /\ orch' = IF orch.mode = "parallel" THEN [orch EXCEPT !.at = "check"]
               ELSE IF build_question_video(DecStr(1), DataOf(DecStr(1)), "ok").raised
               THEN NextUnit(orch)
               ELSE [orch EXCEPT !.at = "cool"]
    /\ UNCHANGED <<should_pause, sig_count, owed, main_vars, fn_vars>>

\* The cool-time sleep returns.
CoolDown ==
    /\ orch # None
    /\ orch.at = "cool"
    /\ orch' = NextUnit(orch)
    /\ UNCHANGED <<should_pause, sig_count, owed, main_vars, fn_vars>>

NextPause ==
    \/ PauseHandler
    \/ PauseCheck
    \/ PauseSleep
    \/ PauseReset
    \/ RenderUnit
    \/ CoolDown

SpecPause == InitPause /\ [][NextPause]_vars

\* ------------------------------------------------------------------ claims
BankIds == {bank.entries[i].qid : i \in 1..Len(bank.entries)}

\* E: the questions of the bank whose artifact was there when the run began.
ExistingAtStart == {q \in BankIds : fs0[QuizName(q)] # Absent}

\* The identifiers build_question_video was invoked for in this run.
Called == {builds[i].qid : i \in 1..Len(builds)}

\* The run's rendering part is over (the run did not end at the bank check).
RenderingOver ==
    /\ pc \notin {"off", "main", "seq", "batch", "pool"}
    /\ outcome # "no_questions"

\* C1: in a run with skip-existing and no force-render list, over a bank with
\* unique ids and a directory holding the artifacts of a strict subset E of
\* the bank, the composer is invoked for exactly the ids of bank \ E (once
\* each) and no artifact of E is written, replaced or deleted.
C1_SkipExistingRendersExactlyMissing ==
    (/\ pc # "off"
     /\ ~args.skip_rendering
     /\ args.skip_existing
     /\ args.force_render = <<>>
     /\ bank.status = "ok"
     /\ ExistingAtStart # BankIds)
    => /\ \A q \in ExistingAtStart : fs[QuizName(q)] = fs0[QuizName(q)] /\ QuizName(q) \notin written
       /\ Called \subseteq BankIds \ ExistingAtStart
       /\ Len(builds) = Cardinality(Called)
       /\ RenderingOver => Called = BankIds \ ExistingAtStart

C1_Witness ==
    /\ RenderingOver
    /\ pc = "idle"
    /\ ~args.skip_rendering
    /\ args.skip_existing
    /\ args.force_render = <<>>
    /\ ExistingAtStart # {}
    /\ Called # {}
    /\ Called = BankIds \ ExistingAtStart
    /\ \A q \in ExistingAtStart : fs[QuizName(q)] = Complete /\ QuizName(q) \notin written

\* The value a step returned for question q: appended to output_paths in the
\* sequential loop, stored in the pool's result slot in parallel mode.
ReturnedExistingPath(q) ==
    IF args.sequential
    THEN output_paths' = Append(output_paths, OutDir \o <<Sep>> \o QuizName(q))
    ELSE \E i \in 1..Len(items) :
            /\ items[i].qid = q
            /\ items[i].st = "queued"
            /\ items'[i].st = "done"
            /\ items'[i].ret = OutDir \o <<Sep>> \o QuizName(q)

C3_ForceRenderInvokesComposer ==
    (RenderingOver /\ ~args.skip_rendering /\ bank.status = "ok")
    => \A q \in SeqToSet(args.force_render) \cap BankIds : q \in Called

\* The manifest of the current run has been written.
ManifestWritten == ListName \in written

\* The path quoted on a manifest line.
PathOfLine(line) == SubSeq(line, Len(LinePrefix) + 1, Len(line) - 1)

\* The identifier in the file name of the i-th manifest entry.
EntryId(i) == StemOf(Basename(PathOfLine(manifest[i])))

\* The question entries of the manifest (all lines after the first) are
\* quiz_<number>.mp4 files in strictly ascending order of the number.
QuestionEntriesAscending ==
    /\ \A i \in 2..Len(manifest) :
          /\ IsQuizFile(Basename(PathOfLine(manifest[i])))
          /\ ParseInt(EntryId(i)).ok
    /\ \A i, j \in 2..Len(manifest) :
          i < j => ParseInt(EntryId(i)).val < ParseInt(EntryId(j)).val

IntroFirst == Len(manifest) >= 1 /\ manifest[1] = ManifestLine(IntroPath)

\* C4 (as claimed): when the manifest is written from paths collected
\* directly by the rendering loop of the same run, its first line is the
\* intro artifact and the question artifacts follow in ascending numeric
\* identifier order, whatever the order of the bank.
C4_CollectedManifestAscending ==
    (ManifestWritten /\ ~args.skip_rendering /\ ~scanned)
    => (IntroFirst /\ QuestionEntriesAscending)

\* The per-question artifacts that were in the directory when the run began.
PreRendered == {q \in QIds : fs0[QuizName(q)] # Absent}

\* C5 (as claimed): with --skip-rendering the manifest is the intro artifact
\* followed by exactly the pre-rendered per-question artifacts, ascending by
\* number, and nothing else, for every directory content and listing order.
C5_SkipRenderingManifestExact ==
    (ManifestWritten /\ args.skip_rendering)
    => /\ IntroFirst
       /\ QuestionEntriesAscending
       /\ {PathOfLine(manifest[i]) : i \in 2..Len(manifest)} = {QuizPath(q) : q \in PreRendered}
       /\ Len(manifest) = 1 + Cardinality(PreRendered)

\* C6: an error raised by the build of one question is caught there: the
\* step returns None (no exception leaves it), adds no path and does not end
\* the run; every selected question is processed, in order, before the
\* rendering part is over; a failed build contributes no collected path.
C6_BuildErrorIsContained ==
    /\ [][(Len(builds') > Len(builds) /\ builds'[Len(builds')].raised)
          => /\ outcome' = outcome
             /\ output_paths' = output_paths
             /\ pc' \in {"seq", "pool", "discover"}
             /\ pc = "pool" =>
                   \E i \in 1..Len(items) :
                      /\ items[i].st = "building"
                      /\ items'[i].st = "done"
                      /\ items'[i].ret = None
                      /\ ~items'[i].exc]_vars
    /\ []((RenderingOver /\ ~args.skip_rendering)
          => handed = [i \in 1..Len(questions) |-> questions[i].qid])
    /\ [](~scanned =>
            \A i \in 1..Len(builds) :
               builds[i].raised => OutDir \o <<Sep>> \o QuizName(builds[i].qid) \notin SeqToSet(output_paths))

C6_Witness ==
    /\ pc = "idle"
    /\ outcome = "all_done"
    /\ ~scanned
    /\ Len(handed) = 2
    /\ Len(builds) = 1
    /\ builds[1].qid = handed[1]
    /\ builds[1].raised
    /\ output_paths = <<QuizPath(handed[2])>>

\* C7: when rendering is not skipped and the bank file is missing or is not
\* valid JSON, the run ends at the bank check: no question is handed to a
\* worker or built, no file of the output directory changes (no intro clip,
\* no manifest) and the muxer is not invoked.
C7_BadBankEndsRun ==
    (~args.skip_rendering /\ bank.status # "ok" /\ pc \notin {"off", "main"})
    => /\ pc = "idle"
       /\ outcome = "no_questions"
       /\ handed = <<>>
       /\ builds = <<>>
       /\ fs = fs0
       /\ written = {}
       /\ intro_log = <<>>
       /\ mux_exit = "none"
       /\ concat_ret = "none"

C7_Witness ==
    /\ pc = "idle"
    /\ ~args.skip_rendering
    /\ bank.status = "invalid"
    /\ outcome = "no_questions"
    /\ \E q \in QIds : fs[QuizName(q)] # Absent

\* C8 (as claimed): concatenate_videos returns True exactly when ffmpeg
\* exited with status zero, returns False for every failure of the
\* invocation (no error propagates), and main reports success only on True.
C8_ConcatReturnsBoolean ==
    (mux_exit # "none")
    => /\ concat_ret = "True" <=> mux_exit = "zero"
       /\ mux_exit # "zero" => concat_ret = "False"
       /\ outcome = "all_done" <=> concat_ret = "True"

\* C9: once intro.mp4 exists no step changes it or renders it again, and
\* create_concat_list called while it exists lists it first; over all runs
\* at most one rendering of the intro clip completes.
C9_IntroRenderedOnce ==
    /\ [][(fs[IntroName] # Absent)
          => /\ fs'[IntroName] = fs[IntroName]
             /\ IntroName \in written' => IntroName \in written
             /\ Len(intro_log') <= Len(intro_log)
             /\ intro_done' = intro_done
             /\ pc = "concat_list" =>
                   (pc' = "concatenate" /\ manifest'[1] = LinePrefix \o IntroPath \o <<"'">>)]_vars
    /\ [](intro_done <= 1)

C9_Witness ==
    /\ run = 2
    /\ fs[IntroName] = Complete
    /\ intro_done = 1
    /\ intro_log = <<>>
    /\ IntroName \notin written
    /\ ManifestWritten
    /\ IntroFirst

\* C10 (as claimed): a question whose options do not have exactly one entry
\* marked correct is rejected before composition: build_question_video never
\* begins to compose it.
C10_InvalidQuestionRejected ==
    \A i \in 1..Len(builds) : builds[i].correct # 1 => ~builds[i].composing

\* C11 (as claimed): over a bank of one well-formed question (exactly one
\* correct option) whose artifact is absent, a run that renders completes
\* build_question_video for it whenever the environment does not fail, and
\* writes quiz_<id>.mp4, the only per-question entry of the manifest.
C11_WellFormedQuestionIsRendered ==
    (/\ RenderingOver
     /\ ~args.skip_rendering
     /\ bank.status = "ok"
     /\ Len(bank.entries) = 1
     /\ CorrectCount(bank.entries[1].data) = 1
     /\ fs0[QuizName(bank.entries[1].qid)] = Absent)
    => LET q == bank.entries[1].qid
       IN /\ Len(builds) = 1
          /\ builds[1].qid = q
          /\ builds[1].stage \notin {"audio", "encode"} =>
                /\ ~builds[1].raised
                /\ fs[QuizName(q)] = Complete
                /\ QuizName(q) \in written
                /\ ManifestWritten =>
                      {PathOfLine(manifest[i]) : i \in 2..Len(manifest)} = {QuizPath(q)}

\* The option mappings with the texts of options, in the same order.
Twins(options) ==
    {[i \in 1..Len(options) |-> [text |-> options[i].text, is_corr |-> f[i]]] :
        f \in [1..Len(options) -> BOOLEAN]}

\* What a viewer can tell of an option element.
Look(clip) ==
    [color |-> clip.color, font |-> clip.font, font_size |-> clip.font_size,
     text |-> clip.text, pos |-> clip.pos]

Emphasized(clip) ==
    clip.color = PALETTE.correct /\ clip.font = BOLD_FONT /\ clip.font_size = 60

Muted(clip) ==
    clip.color = PALETTE.opt /\ clip.font = REGULAR_FONT /\ clip.font_size = 50

RestPos(k) ==
    LET at == make_option_clips(fn_call.question_text, fn_call.options, fn_call.dur, TRUE)[k].pos
    IN <<at.x0, at.y0>>

\* The evaluation falls inside the slide-in of its option.
Sliding(e) ==
    LET elapsed == e.t - (e.k - 1) * SLIDE_DELAY
    IN 0 < elapsed /\ elapsed < SLIDE_DUR

WrappedLines == IF fn_result.value = <<>> THEN <<>> ELSE SplitLines(fn_result.value, <<>>, <<>>)

\* The words of a sequence of lines, in order.
RECURSIVE WordsOf(_)
WordsOf(lines) ==
    IF lines = <<>> THEN <<>> ELSE split(Head(lines), <<>>, <<>>) \o WordsOf(Tail(lines))

StartsRendering ==
    /\ orch # None
    /\ orch'.at = "render"
    /\ orch.at # "render" \/ orch'.unit # orch.unit

\* C16 (as claimed): no unit of work starts rendering while a pause request
\* is outstanding, that is, after a signal set the pause state and before
\* either a cooldown was begun for it or a later signal called it off; and
\* the step after the cooldown leaves the pause state cleared.
C16_PauseRequestsHonoured ==
    [][/\ StartsRendering => ~owed
       /\ (orch # None /\ orch.at = "reset") => ~should_pause']_vars

\* C17 (as claimed): every question the composer is invoked for, in an
\* environment that does not fail, gets the timeline lead-in, guess, reveal:
\* each phase once, one after the other without overlap, 1 + 10 + 3 seconds
\* in total, the progress bar in the guess phase only; and the output is the
\* one file quiz_<id>.mp4.
C17_TimelineIsLeadInGuessReveal ==
    \A i \in 1..Len(builds) :
       builds[i].stage \notin {"audio", "encode"} =>
          LET tl == builds[i].timeline
          IN /\ [k \in 1..Len(tl) |-> tl[k].name] = <<"pause", "guess", "reveal">>
             /\ Len(tl) = 3 =>
                   /\ tl[1].start = 0
                   /\ \A k \in 1..2 : tl[k + 1].start = tl[k].start + tl[k].duration
                   /\ tl[3].start + tl[3].duration = builds[i].duration
                   /\ \A k \in 1..3 : tl[k].bar <=> tl[k].name = "guess"
             /\ builds[i].duration = Seconds(1 + 10 + 3)
             /\ builds[i].wrote = Complete
             /\ builds[i].path = QuizPath(builds[i].qid)
             /\ fs[QuizName(builds[i].qid)] = Complete

\* C18 (as claimed): a run over a directory in which an interrupted encode
\* left a partial quiz_<id>.mp4 invokes the composer again for that question
\* when it is in the bank, and the manifest of a run lists no per-question
\* artifact that is a partial file.
C18_PartialArtifactIsRedone ==
    /\ (RenderingOver /\ ~args.skip_rendering /\ ~args.skip_existing)
       => \A q \in BankIds : fs0[QuizName(q)] = Partial => q \in Called
    /\ ManifestWritten
       => \A i \in 2..Len(manifest) : fs[Basename(PathOfLine(manifest[i]))] # Partial

\* C19 (as claimed): whenever a run has written the manifest, every question
\* of the bank whose artifact is in the output directory at that moment has
\* an entry, whether it was rendered in this run or before it.
C19_ManifestListsEveryExistingArtifact ==
    (ManifestWritten /\ bank.status = "ok")
    => \A q \in BankIds :
          fs[QuizName(q)] # Absent
          => QuizPath(q) \in {PathOfLine(manifest[i]) : i \in 2..Len(manifest)}

\* A run in parallel mode.
ParallelRun == pc # "off" /\ ~args.skip_rendering /\ ~args.sequential

\* The identifiers of a sequence of questions or work items.
QIdsOf(qs) == [i \in 1..Len(qs) |-> qs[i].qid]

\* The place of a collected path in the order of the selected questions.
QIndex(path) == CHOOSE k \in 1..Len(questions) : QuizPath(questions[k].qid) = path

\* C20: in parallel mode with batch size B the selected questions are cut,
\* in order, into consecutive batches of at most B; the questions are
\* handed to workers in that order, each once; nothing of a later batch is
\* handed out while a batch is in the pool, and the loop goes to the next
\* batch only when every item has returned; the cool-time sleep follows
\* every batch but the last; the collected paths are in question order.
C20_BatchesAreConsecutiveAndOrdered ==
    /\ [](ParallelRun =>
            /\ Len(handed) <= Len(questions)
            /\ handed = SubSeq(QIdsOf(questions), 1, Len(handed))
            /\ (RenderingOver /\ outcome # "crashed") => Len(handed) = Len(questions))
    /\ []((ParallelRun /\ pc = "pool") =>
            LET B == args.batch_size
                first == batch_num * B + 1
                last == Min((batch_num + 1) * B, Len(questions))
            IN /\ Len(items) \in 1..B
               /\ QIdsOf(items) = SubSeq(QIdsOf(questions), first, last)
               /\ first - 1 <= Len(handed)
               /\ Len(handed) <= last
               /\ \A i \in 1..Len(items) : items[i].st # "queued" <=> first + i - 1 <= Len(handed))
    /\ [][(ParallelRun /\ batch_num' # batch_num /\ pc' # "off")
          => /\ \A i \in 1..Len(items) : items[i].st = "done"
             /\ Len(handed) = Min((batch_num + 1) * args.batch_size, Len(questions))]_vars
    /\ []((ParallelRun /\ pc \in {"batch", "pool"}) =>
            batch_cools = [i \in 1..batch_num |-> i - 1])
    /\ []((ParallelRun /\ RenderingOver /\ outcome # "crashed" /\ questions # <<>>) =>
            batch_cools = [i \in 1..(Ceil(Len(questions), args.batch_size) - 1) |-> i - 1])
    /\ []((ParallelRun /\ ~scanned) =>
            /\ \A i \in 1..Len(output_paths) :
                  \E k \in 1..Len(handed) : output_paths[i] = QuizPath(handed[k])
            /\ \A i, j \in 1..Len(output_paths) :
                  i < j => QIndex(output_paths[i]) < QIndex(output_paths[j]))

C20_Witness ==
    /\ ParallelRun
    /\ pc = "idle"
    /\ outcome = "all_done"
    /\ args.batch_size = 1
    /\ args.jobs = 2
    /\ Len(questions) = 2
    /\ Len(handed) = 2
    /\ batch_cools = <<0>>
    /\ ~scanned
    /\ Len(output_paths) = 2

====
